---- MODULE Spec2Model ----
(***************************************************************************)
(* Model of the sudoku_generator crate (native/sudoku_generator/src):      *)
(* generator.rs (solution construction, carving, solution counting),       *)
(* solver.rs (validation), difficulty.rs (clue targets) and the NIF entry  *)
(* point of lib.rs.                                                         *)
(*                                                                         *)
(* A grid is a Vec<i32> in row-major order.  The code indexes it from 0;   *)
(* a TLA+ sequence is indexed from 1, so cell `idx` of the code is         *)
(* grid[idx + 1] here.  All positions, rows and columns keep the code's    *)
(* 0-based values.                                                         *)
(***************************************************************************)
EXTENDS Integers, Sequences, FiniteSets, TLC

(***************************************************************************)
(* rand::rngs::StdRng.  The generator is a deterministic stream fixed by   *)
(* the seed; the crate's stream cipher is replaced by a small congruential *)
(* generator with the same interface: seed_from_u64 builds the state,      *)
(* gen_range(0..=i) advances the state and returns a value in 0..i.        *)
(***************************************************************************)
SeedFromU64(seed) == (seed * 7919 + 12345) % 65537

RngNext(rng) == (rng * 75 + 74) % 65537

\* rng.gen_range(0..=i): the value drawn (the state after the draw is RngNext(rng))
GenRange(rng, i) == (RngNext(rng) \div 16) % (i + 1)

(***************************************************************************)
(* (size as f64).sqrt() as usize: the floor of the square root.            *)
(***************************************************************************)
SubGridSize(size) == CHOOSE s \in 0..size : s * s <= size /\ (s + 1) * (s + 1) > size

(***************************************************************************)
(* generator.rs: is_valid_placement                                        *)
(***************************************************************************)
is_valid_placement(grid, size, row, col, num) ==
    /\ \A c \in 0..(size - 1) : grid[row * size + c + 1] # num
    /\ \A r \in 0..(size - 1) : grid[r * size + col + 1] # num
    /\ LET sub_grid_size == SubGridSize(size)
           box_row == (row \div sub_grid_size) * sub_grid_size
           box_col == (col \div sub_grid_size) * sub_grid_size
       IN  \A r \in box_row..(box_row + sub_grid_size - 1) :
             \A c \in box_col..(box_col + sub_grid_size - 1) :
                grid[r * size + c + 1] # num

(***************************************************************************)
(* solver.rs: is_valid_row / is_valid_col / is_valid_box / is_valid_solution*)
(* `seen` is the HashSet: a value is rejected when it is out of range or   *)
(* insert() finds it already present.                                      *)
(***************************************************************************)
\* one pass over the cells `cells` (a sequence of 0-based indices), as the three
\* helpers make it: false at the first bad value, else seen.len() == expected
ScanCells(grid, size, cells, expected) ==
    /\ \A k \in 1..Len(cells) :
          LET value == grid[cells[k] + 1]
          IN  /\ ~(value < 1 \/ value > size)
              /\ \A j \in 1..(k - 1) : grid[cells[j] + 1] # value
    /\ Cardinality({grid[cells[k] + 1] : k \in 1..Len(cells)}) = expected

is_valid_row(grid, size, row) ==
    ScanCells(grid, size, [k \in 1..size |-> row * size + (k - 1)], size)

is_valid_col(grid, size, col) ==
    ScanCells(grid, size, [k \in 1..size |-> (k - 1) * size + col], size)

\* is_valid_box looking at the first row of the box only
is_valid_boxFirstRow(grid, size, start_row, start_col, box_size) ==
    ScanCells(grid, size,
              [k \in 1..box_size |-> start_row * size + start_col + (k - 1)],
              box_size)

is_valid_box(grid, size, start_row, start_col, box_size) ==
    ScanCells(grid, size,
              [k \in 1..(box_size * box_size) |->
                  (start_row + ((k - 1) \div box_size)) * size
                  + start_col + ((k - 1) % box_size)],
              box_size * box_size)

\* (0..size).step_by(sub_grid_size)
StepBy(size, step) == {b \in 0..(size - 1) : b % step = 0}

is_valid_solution(grid, size) ==
    IF Len(grid) # size * size THEN FALSE
    ELSE /\ \A row \in 0..(size - 1) : is_valid_row(grid, size, row)
         /\ \A col \in 0..(size - 1) : is_valid_col(grid, size, col)
         /\ LET sub_grid_size == SubGridSize(size)
            IN  \A box_row \in StepBy(size, sub_grid_size) :
                  \A box_col \in StepBy(size, sub_grid_size) :
                     is_valid_box(grid, size, box_row, box_col, sub_grid_size)

\* solver.rs: check_constraints
check_constraints(grid, size, row, col, value) ==
    IF value < 1 \/ value > size THEN FALSE
    ELSE /\ \A c \in 0..(size - 1) : ~(c # col /\ grid[row * size + c + 1] = value)
         /\ \A r \in 0..(size - 1) : ~(r # row /\ grid[r * size + col + 1] = value)
         /\ LET sub_grid_size == SubGridSize(size)
                box_row == (row \div sub_grid_size) * sub_grid_size
                box_col == (col \div sub_grid_size) * sub_grid_size
            IN  \A r \in box_row..(box_row + sub_grid_size - 1) :
                  \A c \in box_col..(box_col + sub_grid_size - 1) :
                     ~((r # row \/ c # col) /\ grid[r * size + c + 1] = value)

(***************************************************************************)
(* difficulty.rs: is_valid_difficulty; lib.rs: is_valid_size;              *)
(* generator.rs: calculate_target_clues.  The percentage is kept in        *)
(* hundredths; (total_cells as f64 * percentage) as usize is the floor of  *)
(* the product.                                                            *)
(***************************************************************************)
is_valid_size(size) == size \in {9, 16, 25, 36, 49, 100}

\* is_valid_difficulty with the upper limit one too high
is_valid_difficultyLoose(difficulty) == difficulty \in 0..4

is_valid_difficulty(difficulty) == difficulty \in 0..3

Percentage(difficulty) ==
    CASE difficulty = 0 -> 55
      [] difficulty = 1 -> 40
      [] difficulty = 2 -> 30
      [] difficulty = 3 -> 22
      [] OTHER -> 40

calculate_target_clues(size, difficulty) ==
    LET total_cells == size * size
    IN  (total_cells * Percentage(difficulty)) \div 100

(***************************************************************************)
(* State.  One request runs at a time (lib.rs runs each call to completion *)
(* on its own buffers); the recursion of fill_grid and of                  *)
(* count_solutions_recursive is kept as an explicit stack of frames.       *)
(***************************************************************************)
VARIABLES
    pc,         \* where the running call is
    size,       \* argument: edge length
    difficulty, \* argument: difficulty level
    seed,       \* argument: seed of the running function
    rng,        \* StdRng state of the running function
    vec,        \* the slice handed to shuffle_numbers / shuffle_indices
    si,         \* loop variable i of the shuffle
    grid,       \* the &mut [i32] buffer of the running search
    stack,      \* frames of the running recursion, innermost last
    mode,       \* "call", "shuffle", "loop", "ret": position of the innermost call
    arg,        \* `pos` argument of the call being entered
    ret,        \* count returned by the count_solutions_recursive call that just returned
    filled,     \* bool returned by the fill_grid call that just returned
    solution,   \* the complete grid
    puzzle,     \* create_puzzle's puzzle
    indices,    \* create_puzzle's shuffled indices
    cur,        \* number of elements of indices.iter() consumed
    removed,    \* create_puzzle's removed
    original,   \* create_puzzle's original
    out,        \* what the call returned
    memo        \* what the caller keeps between two calls

vars == <<pc, size, difficulty, seed, rng, vec, si, grid, stack, mode, arg, ret, filled,
          solution, puzzle, indices, cur, removed, original, out, memo>>

searchVars == <<grid, stack, mode, arg, ret, filled>>
carveVars == <<puzzle, indices, cur, removed, original>>
argVars == <<size, difficulty, seed>>

None == <<>>
Iota(n) == [i \in 1..n |-> i]
Zeros(n) == [i \in 1..n |-> 0]
Top == stack[Len(stack)]
Pop == SubSeq(stack, 1, Len(stack) - 1)
SetTop(f) == [stack EXCEPT ![Len(stack)] = f]

(***************************************************************************)
(* generator.rs: shuffle_numbers / shuffle_indices, one iteration of       *)
(* `for i in (1..len).rev()`: j = rng.gen_range(0..=i); swap(i, j).        *)
(***************************************************************************)
Swap(v, i, j) == [v EXCEPT ![i + 1] = v[j + 1], ![j + 1] = v[i + 1]]

ShuffleStep ==
    /\ si >= 1
    /\ vec' = Swap(vec, si, GenRange(rng, si))
    /\ rng' = RngNext(rng)
    /\ si' = si - 1
    /\ UNCHANGED <<pc, argVars, searchVars, solution, carveVars, out, memo>>

(***************************************************************************)
(* generator.rs: generate_solution                                         *)
(***************************************************************************)
\* GenerateSolution drawing from a generator that outlives the call
GenerateSolutionShared ==
    /\ pc = "generate_solution"
    /\ rng' = IF rng = 0 THEN SeedFromU64(seed) ELSE rng
    /\ IF size >= 16
       THEN /\ vec' = Iota(size)
            /\ si' = size - 1
            /\ pc' = "pattern"
            /\ UNCHANGED searchVars
       ELSE /\ grid' = Zeros(size * size)
            /\ stack' = <<>>
            /\ mode' = "call"
            /\ arg' = 0
            /\ pc' = "fill_grid"
            /\ UNCHANGED <<vec, si, ret, filled>>
    /\ UNCHANGED <<argVars, solution, carveVars, out, memo>>

GenerateSolution ==
    /\ pc = "generate_solution"
    /\ rng' = SeedFromU64(seed)
    /\ IF size >= 16
       THEN \* generate_solution_pattern: base_row = 1..=size, then shuffled
            /\ vec' = Iota(size)
            /\ si' = size - 1
            /\ pc' = "pattern"
            /\ UNCHANGED searchVars
       ELSE \* grid = vec![0; size * size]; fill_grid(&mut grid, size, 0, &mut rng)
            /\ grid' = Zeros(size * size)
            /\ stack' = <<>>
            /\ mode' = "call"
            /\ arg' = 0
            /\ pc' = "fill_grid"
            /\ UNCHANGED <<vec, si, ret, filled>>
    /\ UNCHANGED <<argVars, solution, carveVars, out, memo>>

\* PatternGrid with the shift of the band left out
PatternGridNoBand(n, base_row) ==
    LET sub_grid_size == SubGridSize(n)
    IN  [i \in 1..(n * n) |->
            LET idx == i - 1
                row == idx \div n
                col == idx % n
                shift == (row * sub_grid_size) % n
            IN  base_row[((col + shift) % n) + 1]]

\* generate_solution_pattern, after the shuffle of base_row: the two loops
PatternGrid(n, base_row) ==
    LET sub_grid_size == SubGridSize(n)
    IN  [i \in 1..(n * n) |->
            LET idx == i - 1
                row == idx \div n
                col == idx % n
                shift == (row * sub_grid_size + (row \div sub_grid_size)) % n
            IN  base_row[((col + shift) % n) + 1]]

PatternFill ==
    /\ pc = "pattern"
    /\ si < 1
    /\ solution' = PatternGrid(size, vec)
    /\ pc' = "solved"
    /\ UNCHANGED <<argVars, rng, vec, si, searchVars, carveVars, out, memo>>

(***************************************************************************)
(* generator.rs: fill_grid.  A frame is [pos, numbers, k]: k is the number *)
(* of elements of numbers.iter() consumed.                                 *)
(***************************************************************************)
\* entry: `if pos >= total_cells { return true }`, else numbers = 1..=size
FillCall ==
    /\ pc = "fill_grid"
    /\ mode = "call"
    /\ IF arg >= size * size
       THEN /\ filled' = TRUE
            /\ mode' = "ret"
            /\ UNCHANGED <<vec, si, stack>>
       ELSE /\ vec' = Iota(size)
            /\ si' = size - 1
            /\ stack' = Append(stack, [pos |-> arg, numbers |-> None, k |-> 0])
            /\ mode' = "shuffle"
            /\ UNCHANGED filled
    /\ UNCHANGED <<pc, argVars, rng, grid, arg, ret, solution, carveVars, out, memo>>

\* shuffle_numbers has returned
FillShuffled ==
    /\ pc = "fill_grid"
    /\ mode = "shuffle"
    /\ si < 1
    /\ stack' = SetTop([Top EXCEPT !.numbers = vec])
    /\ mode' = "loop"
    /\ UNCHANGED <<pc, argVars, rng, vec, si, grid, arg, ret, filled, solution, carveVars, out, memo>>

\* the first element of numbers.iter() after the k consumed ones that passes
\* is_valid_placement on the buffer as it is; Len + 1 when the iterator runs out
NextNumber(g, n, f) ==
    LET ok == {j \in (f.k + 1)..Len(f.numbers) :
                 is_valid_placement(g, n, f.pos \div n, f.pos % n, f.numbers[j])}
    IN  IF ok = {} THEN Len(f.numbers) + 1 ELSE CHOOSE j \in ok : \A m \in ok : j <= m

\* `for &num in numbers.iter()`: up to the next recursive call, or `false`
FillLoop ==
    /\ pc = "fill_grid"
    /\ mode = "loop"
    /\ LET j == NextNumber(grid, size, Top)
       IN  IF j > Len(Top.numbers)
           THEN /\ filled' = FALSE
                /\ stack' = Pop
                /\ mode' = "ret"
                /\ UNCHANGED <<grid, arg>>
           ELSE /\ grid' = [grid EXCEPT ![Top.pos + 1] = Top.numbers[j]]
                /\ stack' = SetTop([Top EXCEPT !.k = j])
                /\ arg' = Top.pos + 1
                /\ mode' = "call"
                /\ UNCHANGED filled
    /\ UNCHANGED <<pc, argVars, rng, vec, si, ret, solution, carveVars, out, memo>>

\* the recursive call has returned into the frame on top
FillRet ==
    /\ pc = "fill_grid"
    /\ mode = "ret"
    /\ stack # <<>>
    /\ IF filled
       THEN \* return true
            /\ stack' = Pop
            /\ UNCHANGED <<grid, mode>>
       ELSE \* grid[pos] = 0, next candidate
            /\ grid' = [grid EXCEPT ![Top.pos + 1] = 0]
            /\ mode' = "loop"
            /\ UNCHANGED stack
    /\ UNCHANGED <<pc, argVars, rng, vec, si, arg, ret, filled, solution, carveVars, out, memo>>

\* generate_solution returns grid (the result of fill_grid is not looked at)
FillDone ==
    /\ pc = "fill_grid"
    /\ mode = "ret"
    /\ stack = <<>>
    /\ solution' = grid
    /\ mode' = "none"
    /\ pc' = "solved"
    /\ UNCHANGED <<argVars, rng, vec, si, grid, stack, arg, ret, filled, carveVars, out, memo>>

(***************************************************************************)
(* generator.rs: count_solutions and count_solutions_recursive.            *)
(* A frame is [pos, num, count]: pos is current_pos, num the last value of *)
(* `for num in 1..=size` that was placed (0 before the first).             *)
(***************************************************************************)
MaxCount == 2

CountPcs == {"count_solutions", "carve_count", "audit_count"}

\* count_solutions: grid_copy = grid.to_vec(); count_solutions_recursive(.., 0, 2)
CountEntry(g) ==
    /\ grid' = g
    /\ stack' = <<>>
    /\ mode' = "call"
    /\ arg' = 0

\* the scan `while current_pos < total_cells && grid[current_pos] != 0`
NextEmpty(g, total_cells, pos) ==
    IF \E p \in pos..(total_cells - 1) : g[p + 1] = 0
    THEN CHOOSE p \in pos..(total_cells - 1) :
            /\ g[p + 1] = 0
            /\ \A q \in pos..(p - 1) : g[q + 1] # 0
    ELSE IF pos > total_cells THEN pos ELSE total_cells

\* entry: find the next empty cell; `return 1` when there is none
CountCall ==
    /\ pc \in CountPcs
    /\ mode = "call"
    /\ LET total_cells == size * size
           current_pos == NextEmpty(grid, total_cells, arg)
       IN  IF current_pos >= total_cells
           THEN /\ ret' = 1
                /\ mode' = "ret"
                /\ UNCHANGED stack
           ELSE /\ stack' = Append(stack, [pos |-> current_pos, num |-> 0, count |-> 0])
                /\ mode' = "loop"
                /\ UNCHANGED ret
    /\ UNCHANGED <<pc, argVars, rng, vec, si, grid, arg, filled, solution, carveVars, out, memo>>

\* NextCandidate for the exclusive range `for num in 1..size`
NextCandidateExclusive(g, n, f) ==
    LET ok == {v \in (f.num + 1)..(n - 1) :
                 is_valid_placement(g, n, f.pos \div n, f.pos % n, v)}
    IN  IF ok = {} THEN n + 1 ELSE CHOOSE v \in ok : \A m \in ok : v <= m

\* the next num of `for num in 1..=size` after f.num that passes
\* is_valid_placement on the buffer as it is; size + 1 when the loop runs out
NextCandidate(g, n, f) ==
    LET ok == {v \in (f.num + 1)..n :
                 is_valid_placement(g, n, f.pos \div n, f.pos % n, v)}
    IN  IF ok = {} THEN n + 1 ELSE CHOOSE v \in ok : \A m \in ok : v <= m

\* `for num in 1..=size`: up to the next recursive call, or the final `count`
CountLoop ==
    /\ pc \in CountPcs
    /\ mode = "loop"
    /\ LET num == NextCandidate(grid, size, Top)
       IN  IF num > size
           THEN /\ ret' = Top.count
                /\ stack' = Pop
                /\ mode' = "ret"
                /\ UNCHANGED <<grid, arg>>
           ELSE /\ grid' = [grid EXCEPT ![Top.pos + 1] = num]
                /\ stack' = SetTop([Top EXCEPT !.num = num])
                /\ arg' = Top.pos + 1
                /\ mode' = "call"
                /\ UNCHANGED ret
    /\ UNCHANGED <<pc, argVars, rng, vec, si, filled, solution, carveVars, out, memo>>

\* CountRet returning at the cutoff with the placed digit left in the buffer
CountRetStale ==
    /\ pc \in CountPcs
    /\ mode = "ret"
    /\ stack # <<>>
    /\ LET count == Top.count + ret
       IN  IF count >= MaxCount
           THEN /\ ret' = count
                /\ stack' = Pop
                /\ UNCHANGED <<grid, mode>>
           ELSE /\ grid' = [grid EXCEPT ![Top.pos + 1] = 0]
                /\ stack' = SetTop([Top EXCEPT !.count = count])
                /\ mode' = "loop"
                /\ UNCHANGED ret
    /\ UNCHANGED <<pc, argVars, rng, vec, si, arg, filled, solution, carveVars, out, memo>>

\* the recursive call has returned into the frame on top:
\* count += ..; if count >= max_count { grid[current_pos] = 0; return count }
\* grid[current_pos] = 0
CountRet ==
    /\ pc \in CountPcs
    /\ mode = "ret"
    /\ stack # <<>>
    /\ LET count == Top.count + ret
       IN  /\ grid' = [grid EXCEPT ![Top.pos + 1] = 0]
           /\ IF count >= MaxCount
              THEN /\ ret' = count
                   /\ stack' = Pop
                   /\ UNCHANGED mode
              ELSE /\ stack' = SetTop([Top EXCEPT !.count = count])
                   /\ mode' = "loop"
                   /\ UNCHANGED ret
    /\ UNCHANGED <<pc, argVars, rng, vec, si, arg, filled, solution, carveVars, out, memo>>

\* the outermost count_solutions_recursive has returned
CountReturned == pc \in CountPcs /\ mode = "ret" /\ stack = <<>>

(***************************************************************************)
(* generator.rs: create_puzzle                                             *)
(***************************************************************************)
CheckedSize == 9

\* the clue target taken for the number of cells to remove
CellsToRemoveSwapped(n, d) == calculate_target_clues(n, d)

CellsToRemove(n, d) == n * n - calculate_target_clues(n, d)

CreatePuzzle ==
    /\ pc = "create_puzzle"
    /\ rng' = SeedFromU64(seed)
    /\ puzzle' = solution
    /\ vec' = [i \in 1..(size * size) |-> i - 1]
    /\ si' = size * size - 1
    /\ cur' = 0
    /\ removed' = 0
    /\ original' = 0
    /\ pc' = "carve_shuffle"
    /\ UNCHANGED <<argVars, searchVars, solution, indices, out, memo>>

\* shuffle_indices has returned
CarveShuffled ==
    /\ pc = "carve_shuffle"
    /\ si < 1
    /\ indices' = vec
    /\ pc' = "carve"
    /\ UNCHANGED <<argVars, rng, vec, si, searchVars, solution, puzzle, cur, removed,
                   original, out, memo>>

\* the break taken one removal late
CarveFinishedLate == cur >= Len(indices) \/ removed > CellsToRemove(size, difficulty)

\* `for` runs out, or `if removed >= cells_to_remove { break }`
CarveFinished == cur >= Len(indices) \/ removed >= CellsToRemove(size, difficulty)

\* CarveStep with `original` read after the cell is zeroed
CarveStepLateRead ==
    /\ pc = "carve"
    /\ ~CarveFinished
    /\ LET idx == indices[cur + 1]
           zeroed == [puzzle EXCEPT ![idx + 1] = 0]
       IN  /\ original' = zeroed[idx + 1]
           /\ puzzle' = zeroed
           /\ IF size = CheckedSize
              THEN /\ CountEntry(zeroed)
                   /\ pc' = "carve_count"
                   /\ UNCHANGED <<cur, removed, ret, filled>>
              ELSE /\ removed' = removed + 1
                   /\ cur' = cur + 1
                   /\ UNCHANGED <<pc, searchVars>>
    /\ UNCHANGED <<argVars, rng, vec, si, solution, indices, out, memo>>

\* one pass through the body of `for &idx in indices.iter()`, up to the call of
\* count_solutions when uniqueness is checked
CarveStep ==
    /\ pc = "carve"
    /\ ~CarveFinished
    /\ LET idx == indices[cur + 1]
           zeroed == [puzzle EXCEPT ![idx + 1] = 0]
       IN  /\ original' = puzzle[idx + 1]
           /\ puzzle' = zeroed
           /\ IF size = CheckedSize
              THEN /\ CountEntry(zeroed)
                   /\ pc' = "carve_count"
                   /\ UNCHANGED <<cur, removed, ret, filled>>
              ELSE /\ removed' = removed + 1
                   /\ cur' = cur + 1
                   /\ UNCHANGED <<pc, searchVars>>
    /\ UNCHANGED <<argVars, rng, vec, si, solution, indices, out, memo>>

\* CarveCounted accepting every removal that leaves the puzzle solvable
CarveCountedSolvable ==
    /\ pc = "carve_count"
    /\ CountReturned
    /\ IF ret >= 1
       THEN /\ removed' = removed + 1
            /\ UNCHANGED puzzle
       ELSE /\ puzzle' = [puzzle EXCEPT ![indices[cur + 1] + 1] = original]
            /\ UNCHANGED removed
    /\ cur' = cur + 1
    /\ mode' = "none"
    /\ pc' = "carve"
    /\ UNCHANGED <<argVars, rng, vec, si, grid, stack, arg, ret, filled, solution, indices,
                   original, out, memo>>

\* count_solutions(&puzzle, size) has returned: accept or restore
CarveCounted ==
    /\ pc = "carve_count"
    /\ CountReturned
    /\ IF ret = 1
       THEN /\ removed' = removed + 1
            /\ UNCHANGED puzzle
       ELSE /\ puzzle' = [puzzle EXCEPT ![indices[cur + 1] + 1] = original]
            /\ UNCHANGED removed
    /\ cur' = cur + 1
    /\ mode' = "none"
    /\ pc' = "carve"
    /\ UNCHANGED <<argVars, rng, vec, si, grid, stack, arg, ret, filled, solution, indices,
                   original, out, memo>>

\* the loop is left (break, or the iterator is exhausted): `puzzle` is returned
CarveReturn ==
    /\ pc = "carve"
    /\ CarveFinished
    /\ out' = puzzle
    /\ pc' = "returned"
    /\ UNCHANGED <<argVars, rng, vec, si, searchVars, solution, carveVars, memo>>

(***************************************************************************)
(* lib.rs: generate (the NIF).  What the caller keeps (memo) is the        *)
(* caller's to set.                                                        *)
(***************************************************************************)
Generate(sz, d, s) ==
    /\ pc = "idle"
    /\ size' = sz
    /\ difficulty' = d
    /\ seed' = s
    /\ IF ~is_valid_size(sz)
       THEN /\ out' = [err |-> "InvalidSize"]
            /\ pc' = "error"
       ELSE IF ~is_valid_difficulty(d)
       THEN /\ out' = [err |-> "InvalidDifficulty"]
            /\ pc' = "error"
       ELSE /\ pc' = "generate_solution"
            /\ UNCHANGED out
    /\ UNCHANGED <<rng, vec, si, searchVars, solution, carveVars>>

\* is_valid_solution(&solution, size), then create_puzzle(.., seed + 1)
ValidateSolution ==
    /\ pc = "solved"
    /\ IF ~is_valid_solution(solution, size)
       THEN /\ out' = [err |-> "Generated invalid solution"]
            /\ pc' = "error"
            /\ UNCHANGED seed
       ELSE /\ seed' = seed + 1
            /\ pc' = "create_puzzle"
            /\ UNCHANGED out
    /\ UNCHANGED <<size, difficulty, rng, vec, si, searchVars, solution, carveVars, memo>>

\* Ok(PuzzleResult { grid, solution })
GenerateOk ==
    /\ pc = "returned"
    /\ out' = [grid |-> out, solution |-> solution]
    /\ pc' = "done"
    /\ UNCHANGED <<argVars, rng, vec, si, searchVars, solution, carveVars, memo>>

(***************************************************************************)
(* The state before any call: no buffer exists yet.                        *)
(***************************************************************************)
Fresh ==
    /\ rng = 0 /\ vec = None /\ si = 0
    /\ grid = None /\ stack = <<>> /\ mode = "none" /\ arg = 0 /\ ret = 0 /\ filled = FALSE
    /\ solution = None
    /\ puzzle = None /\ indices = None /\ cur = 0 /\ removed = 0 /\ original = 0
    /\ out = None

\* the steps of generate_solution's backtracking path and of count_solutions
SolutionSteps ==
    \/ GenerateSolution
    \/ ShuffleStep
    \/ FillCall \/ FillShuffled \/ FillLoop \/ FillRet \/ FillDone

CountSteps ==
    \/ CountCall \/ CountLoop \/ CountRet

(***************************************************************************)
(* Bounds of the explored inputs.                                          *)
(*                                                                         *)
(* At size 9 the two hardest levels make count_solutions walk 10^5 to 10^6 *)
(* calls for most seeds; they are explored for the (solution seed, carving *)
(* seed) pairs of ExpertRuns, for which the walk stays below 10^5 calls.   *)
(***************************************************************************)
MaxSize == 26
MaxDifficulty == 4
MaxSeed == 1

SizeInputs == (0 - 1)..MaxSize
DifficultyInputs == (0 - 1)..MaxDifficulty
Seeds == 108..(108 + MaxSeed)

ExpertRuns == {<<108, 109>>, <<10, 0>>, <<10, 4>>}

Explored(sz, d, solution_seed, carve_seed) ==
    (sz = CheckedSize /\ d >= 2) => <<solution_seed, carve_seed>> \in ExpertRuns

(***************************************************************************)
(* Independent readings of the results, used by the properties below.      *)
(***************************************************************************)
AcceptedSizes == {9, 16, 25, 36, 49, 100}
AcceptedDifficulties == {0, 1, 2, 3}

ZeroCells(p) == Cardinality({i \in 1..Len(p) : p[i] = 0})
ClueCells(p) == Cardinality({i \in 1..Len(p) : p[i] # 0})

\* the cells (1-based) of the rows, columns and boxes of a grid of edge n
Units(n) ==
    LET b == CHOOSE k \in 0..n : k * k = n
    IN  {{r * n + c + 1 : c \in 0..(n - 1)} : r \in 0..(n - 1)}
        \cup {{r * n + c + 1 : r \in 0..(n - 1)} : c \in 0..(n - 1)}
        \cup {{(br * b + dr) * n + bc * b + dc + 1 : dr \in 0..(b - 1), dc \in 0..(b - 1)} :
                 br \in 0..(b - 1), bc \in 0..(b - 1)}

\* g has n * n cells and every row, column and box holds each of 1..n once
IsSolution(g, n) ==
    /\ Len(g) = n * n
    /\ \A u \in Units(n) : {g[i] : i \in u} = 1..n

\* no value occurs twice among the filled cells of a row, column or box
NoDuplicates(g, n) ==
    \A u \in Units(n) : \A i, j \in u : (i # j /\ g[i] # 0) => g[i] # g[j]

\* every cell of p is empty or carries the solution's value
FromSolution(p) ==
    /\ Len(p) = Len(solution)
    /\ \A i \in 1..Len(p) : p[i] = 0 \/ p[i] = solution[i]

\* nothing of generate_solution or create_puzzle has run
NothingComputed ==
    /\ rng = 0 /\ vec = None /\ grid = None /\ stack = <<>>
    /\ solution = None /\ puzzle = None /\ indices = None

(***************************************************************************)
(* Spec: one call of the NIF generate(size, difficulty, seed).             *)
(***************************************************************************)
Start(m) ==
    /\ pc = "idle" /\ size = 0 /\ difficulty = 0 /\ seed = 0
    /\ memo = m
    /\ Fresh

Init == Start(None)

Request ==
    /\ pc = "idle"
    /\ \E sz \in SizeInputs, d \in DifficultyInputs, s \in Seeds :
        /\ Explored(sz, d, s, s + 1)
        /\ Generate(sz, d, s)
    /\ UNCHANGED memo

Next ==
    \/ Request
    \/ SolutionSteps \/ PatternFill
    \/ ValidateSolution
    \/ CreatePuzzle \/ CarveShuffled \/ CarveStep \/ CarveCounted \/ CarveReturn
    \/ CountSteps
    \/ GenerateOk

Spec == Init /\ [][Next]_vars

\* C3: at every step of create_puzzle and in what it returns, every cell of
\* the puzzle is 0 or equals the solution's cell at the same index; right
\* after a removal was rejected by the uniqueness check the cell carries the
\* solution's value again.
C3_CluesMatchSolution ==
    /\ pc \in {"carve_shuffle", "carve", "carve_count"} => FromSolution(puzzle)
    /\ pc = "returned" => FromSolution(out)
    /\ pc = "done" => FromSolution(out.grid) /\ out.solution = solution
    /\ (pc = "carve" /\ size = CheckedSize /\ cur >= 1 /\ ret # 1) =>
            /\ solution[indices[cur] + 1] # 0
            /\ puzzle[indices[cur] + 1] = solution[indices[cur] + 1]

\* a removal has just been rejected and others were accepted before it
C3_Witness ==
    /\ pc = "carve" /\ size = CheckedSize
    /\ cur >= 1 /\ ret # 1 /\ removed >= 1
    /\ puzzle[indices[cur] + 1] # 0

\* C4: a size outside {9, 16, 25, 36, 49, 100} gives InvalidSize; an accepted
\* size with a difficulty outside {0, 1, 2, 3} gives InvalidDifficulty; both
\* are returned before anything is generated or carved; accepted inputs never
\* give one of the two errors.
C4_InputValidation ==
    pc # "idle" =>
        IF size \notin AcceptedSizes
        THEN pc = "error" /\ out = [err |-> "InvalidSize"] /\ NothingComputed
        ELSE IF difficulty \notin AcceptedDifficulties
        THEN pc = "error" /\ out = [err |-> "InvalidDifficulty"] /\ NothingComputed
        ELSE pc = "error" => out.err \notin {"InvalidSize", "InvalidDifficulty"}

\* an accepted size was refused for its difficulty
C4_Witness ==
    /\ pc = "error" /\ size \in AcceptedSizes /\ size > CheckedSize
    /\ difficulty > 3 /\ out = [err |-> "InvalidDifficulty"]

\* C6: the puzzle create_puzzle returns has at most
\* size^2 - floor(size^2 * percentage(difficulty)) zero cells, and exactly
\* that many when size is not 9.
C6_RemovedWithinTarget ==
    pc = "returned" =>
        LET percent == CASE difficulty = 0 -> 55 [] difficulty = 1 -> 40
                         [] difficulty = 2 -> 30 [] difficulty = 3 -> 22
            cellsToRemove == size * size - ((size * size * percent) \div 100)
        IN  /\ ZeroCells(out) <= cellsToRemove
            /\ size # 9 => ZeroCells(out) = cellsToRemove

\* a size-9 puzzle was returned short of the target, every index tried
C6_Witness ==
    /\ pc = "returned" /\ size = 9 /\ difficulty = 3
    /\ cur = Len(indices)
    /\ ZeroCells(out) < CellsToRemove(size, difficulty)
    /\ ZeroCells(out) > 0

(***************************************************************************)
(* SpecGen: one call generate_solution(size, seed), for every accepted     *)
(* size.  The call runs on its own to the end, hence the fairness.         *)
(***************************************************************************)
MaxGenSeed == 7

GenSeeds == 0..MaxGenSeed

InitGen ==
    /\ pc = "generate_solution"
    /\ size \in AcceptedSizes /\ seed \in GenSeeds /\ difficulty = 0
    /\ memo = None
    /\ Fresh

NextGen == SolutionSteps \/ PatternFill

SpecGen == InitGen /\ [][NextGen]_vars /\ WF_vars(NextGen)

\* C1: for every size in {9, 16, 25, 36, 49, 100} and every seed,
\* generate_solution returns, and what it returns has size^2 cells, none of
\* them 0, with each of 1..size exactly once in every row, column and box.
C1_SolutionValid ==
    /\ [](pc = "solved" =>
            /\ size \in AcceptedSizes
            /\ Len(solution) = size * size
            /\ \A i \in 1..Len(solution) : solution[i] # 0
            /\ IsSolution(solution, size))
    /\ <>(pc = "solved")

\* the backtracking path has returned a grid that is not the first one tried
C1_Witness ==
    /\ pc = "solved" /\ size = 9 /\ filled = TRUE
    /\ \E i \in 1..9 : solution[i] # i

(***************************************************************************)
(* lib.rs, tests: create_puzzle called on a solution the caller holds, and *)
(* count_solutions called on a grid the caller holds.                      *)
(***************************************************************************)
\* let puzzle = create_puzzle(sol.clone(), d, 9, s)
CallCreatePuzzle(d, s) ==
    /\ pc \in {"solved", "returned"}
    /\ difficulty' = d
    /\ seed' = s
    /\ pc' = "create_puzzle"
    /\ UNCHANGED <<size, rng, vec, si, searchVars, solution, carveVars, out>>

\* count_solutions(&grid, size) on the carver's puzzle as it stands
AuditStart ==
    /\ pc = "carve"
    /\ memo.audited < cur
    /\ CountEntry(puzzle)
    /\ memo' = [memo EXCEPT !.grid = puzzle]
    /\ pc' = "audit_count"
    /\ UNCHANGED <<argVars, rng, vec, si, ret, filled, solution, carveVars, out>>

AuditDone ==
    /\ pc = "audit_count"
    /\ CountReturned
    /\ memo' = [memo EXCEPT !.audited = cur, !.count = ret]
    /\ mode' = "none"
    /\ pc' = "carve"
    /\ UNCHANGED <<argVars, rng, vec, si, grid, stack, arg, ret, filled, solution, carveVars, out>>

(***************************************************************************)
(* SpecUnique: create_puzzle at size 9 on a generated solution, the puzzle *)
(* handed to count_solutions after every pass of the carving loop.         *)
(***************************************************************************)
MaxCarveSeed == 1

CarveSeeds == 0..MaxCarveSeed
CarvedSolutionSeeds == {10}

InitUnique ==
    /\ pc = "generate_solution"
    /\ size = CheckedSize /\ seed \in CarvedSolutionSeeds /\ difficulty = 0
    /\ memo = [audited |-> 0, count |-> 0, grid |-> None]
    /\ Fresh

CallCarver ==
    /\ pc = "solved"
    /\ \E d \in AcceptedDifficulties, s \in CarveSeeds :
        /\ Explored(size, d, seed, s)
        /\ CallCreatePuzzle(d, s)
    /\ UNCHANGED memo

Audited == memo.audited = cur

CarveStepAudited == Audited /\ CarveStep
CarveReturnAudited == Audited /\ CarveReturn

NextUnique ==
    \/ SolutionSteps
    \/ CallCarver
    \/ CreatePuzzle \/ CarveShuffled \/ CarveStepAudited \/ CarveCounted
    \/ CarveReturnAudited
    \/ AuditStart \/ AuditDone
    \/ CountSteps

SpecUnique == InitUnique /\ [][NextUnique]_vars

\* C2: at size 9, on a valid complete solution, count_solutions of the puzzle
\* is 1 after every pass of the carving loop (the removal accepted or
\* rejected) and for the puzzle create_puzzle returns.
C2_UniqueAfterEveryPass ==
    /\ (pc = "carve" /\ cur >= 1 /\ Audited) =>
            /\ memo.grid = puzzle
            /\ memo.count = 1
    /\ pc = "returned" =>
            /\ IsSolution(solution, size)
            /\ cur >= 1 /\ Audited
            /\ memo.grid = out
            /\ memo.count = 1

\* the puzzle was counted after a pass that rejected its removal
C2_Witness ==
    /\ pc = "carve" /\ Audited
    /\ cur >= 2 /\ removed < cur
    /\ puzzle[indices[cur] + 1] # 0
    /\ memo.grid = puzzle /\ memo.count = 1

(***************************************************************************)
(* SpecDiff: lib.rs, test_create_puzzle_difficulty_affects_clues: one      *)
(* solution carved at difficulty 0, then at difficulty 3.                  *)
(***************************************************************************)
MaxEasySeed == 3

EasySeeds == 0..MaxEasySeed

InitDiff ==
    /\ pc = "generate_solution"
    /\ size = CheckedSize /\ seed \in CarvedSolutionSeeds /\ difficulty = 0
    /\ memo = [calls |-> 0, solution_seed |-> 0, easy |-> None]
    /\ Fresh

\* let easy = create_puzzle(sol.clone(), 0, 9, s)
CallEasy ==
    /\ pc = "solved"
    /\ \E s \in EasySeeds : CallCreatePuzzle(0, s)
    /\ memo' = [memo EXCEPT !.calls = 1, !.solution_seed = seed]

\* let expert = create_puzzle(sol, 3, 9, s)
CallExpert ==
    /\ pc = "returned"
    /\ memo.calls = 1
    /\ \E s \in {r[2] : r \in ExpertRuns} :
        /\ Explored(size, 3, memo.solution_seed, s)
        /\ CallCreatePuzzle(3, s)
    /\ memo' = [memo EXCEPT !.calls = 2, !.easy = out]

NextDiff ==
    \/ SolutionSteps
    \/ CallEasy \/ CallExpert
    \/ CreatePuzzle \/ CarveShuffled \/ CarveStep \/ CarveCounted \/ CarveReturn
    \/ CountSteps

SpecDiff == InitDiff /\ [][NextDiff]_vars

\* C8: for one valid solution of size 9, whatever the two carving seeds,
\* create_puzzle at difficulty 0 leaves strictly more non-zero cells than
\* create_puzzle at difficulty 3.
C8_EasyHasMoreClues ==
    (pc = "returned" /\ memo.calls = 2) =>
        /\ IsSolution(solution, size)
        /\ ClueCells(memo.easy) > ClueCells(out)

\* both puzzles are there, carved with different seeds
C8_Witness ==
    /\ pc = "returned" /\ memo.calls = 2 /\ difficulty = 3
    /\ seed = 0 /\ memo.easy # out
    /\ \E i \in 1..Len(out) : out[i] # 0 /\ memo.easy[i] = 0

(***************************************************************************)
(* SpecDet: the same request generate(size, difficulty, seed) made twice,  *)
(* the second on whatever the first has left behind.                       *)
(***************************************************************************)
InitDet == Start([runs |-> 0, args |-> None, first |-> None])

RequestFirst ==
    /\ pc = "idle"
    /\ memo.runs = 0
    /\ \E sz \in SizeInputs, d \in DifficultyInputs, s \in Seeds :
        /\ Explored(sz, d, s, s + 1)
        /\ Generate(sz, d, s)
        /\ memo' = [memo EXCEPT !.args = <<sz, d, s>>]

\* the first result is kept for the comparison
KeepFirst ==
    /\ pc = "done"
    /\ memo.runs = 0
    /\ memo' = [memo EXCEPT !.runs = 1, !.first = out]
    /\ pc' = "idle"
    /\ UNCHANGED <<argVars, rng, vec, si, searchVars, solution, carveVars, out>>

RequestAgain ==
    /\ pc = "idle"
    /\ memo.runs = 1
    /\ Generate(memo.args[1], memo.args[2], memo.args[3])
    /\ UNCHANGED memo

NextDet ==
    \/ RequestFirst \/ KeepFirst \/ RequestAgain
    \/ SolutionSteps \/ PatternFill
    \/ ValidateSolution
    \/ CreatePuzzle \/ CarveShuffled \/ CarveStep \/ CarveCounted \/ CarveReturn
    \/ CountSteps
    \/ GenerateOk

SpecDet == InitDet /\ [][NextDet]_vars

\* C7: the second of two runs with the same (size, difficulty, seed) returns
\* what the first returned: generate_solution the same sequence, create_puzzle
\* the same puzzle, whatever the first run left behind.
C7_SameRequestSameResult ==
    /\ (memo.runs = 1 /\ pc \in {"solved", "create_puzzle"}) =>
            solution = memo.first.solution
    /\ (memo.runs = 1 /\ pc = "returned") => out = memo.first.grid
    /\ (memo.runs = 1 /\ pc = "done") => out = memo.first

\* the second run of a size-9 request has returned, and removals were rejected
C7_Witness ==
    /\ memo.runs = 1 /\ pc = "done" /\ size = CheckedSize
    /\ removed < cur
    /\ out = memo.first /\ ZeroCells(out.grid) = removed

(***************************************************************************)
(* SpecCount: count_solutions called on grids of edge 4: the valid grid of *)
(* lib.rs, test_is_valid_solution_valid_4x4, with any of its first cells   *)
(* emptied and one of them set to any value.                               *)
(***************************************************************************)
TestSize == 4
MaxCell == 9
MaxPlaceCell == 1

valid_4x4 == <<1, 2, 3, 4,  3, 4, 1, 2,  2, 1, 4, 3,  4, 3, 2, 1>>

Emptied(g, cells) == [i \in 1..Len(g) |-> IF (i - 1) \in cells THEN 0 ELSE g[i]]

CountInputs ==
    LET cut == {Emptied(valid_4x4, cells) : cells \in SUBSET (0..MaxCell)}
    IN  cut \cup {[g EXCEPT ![w + 1] = v] :
                    g \in cut, w \in 0..MaxPlaceCell, v \in 1..TestSize}

InitCount ==
    /\ pc = "input"
    /\ size = TestSize /\ difficulty = 0 /\ seed = 0
    /\ puzzle \in CountInputs
    /\ rng = 0 /\ vec = None /\ si = 0
    /\ grid = None /\ stack = <<>> /\ mode = "none" /\ arg = 0 /\ ret = 0 /\ filled = FALSE
    /\ solution = None /\ indices = None /\ cur = 0 /\ removed = 0 /\ original = 0
    /\ out = None /\ memo = None

\* count_solutions(&grid, size)
CallCountSolutions ==
    /\ pc = "input"
    /\ CountEntry(puzzle)
    /\ pc' = "count_solutions"
    /\ UNCHANGED <<argVars, rng, vec, si, ret, filled, solution, carveVars, out, memo>>

\* count_solutions returns what count_solutions_recursive returned
CountSolutionsReturn ==
    /\ pc = "count_solutions"
    /\ CountReturned
    /\ out' = ret
    /\ mode' = "none"
    /\ pc' = "counted"
    /\ UNCHANGED <<argVars, rng, vec, si, grid, stack, arg, ret, filled, solution, carveVars, memo>>

NextCount == CallCountSolutions \/ CountSteps \/ CountSolutionsReturn

SpecCount == InitCount /\ [][NextCount]_vars

\* all valid grids of edge TestSize, built row by row without the code
RowPermutations(n) == {p \in [1..n -> 1..n] : \A i, j \in 1..n : i # j => p[i] # p[j]}

RECURSIVE Stacked(_, _)
Stacked(n, k) ==
    IF k = 0 THEN {<<>>}
    ELSE LET b == CHOOSE x \in 0..n : x * x = n
             Fits(g, p) ==
                \A r \in 0..(k - 2) : \A c, d \in 0..(n - 1) :
                    (c = d \/ (r \div b = (k - 1) \div b /\ c \div b = d \div b))
                        => g[r * n + c + 1] # p[d + 1]
         IN  {x \in {g \o p : g \in Stacked(n, k - 1), p \in RowPermutations(n)} :
                Fits(SubSeq(x, 1, (k - 1) * n), SubSeq(x, (k - 1) * n + 1, k * n))}

AllSolutions == {g \in Stacked(TestSize, TestSize) : IsSolution(g, TestSize)}

\* the valid grids that agree with g on every filled cell of g
Completions(g) == {s \in AllSolutions : \A i \in 1..Len(s) : g[i] = 0 \/ g[i] = s[i]}

\* C5: count_solutions returns the number N of completions of the grid
\* capped at 2, that is min(N, 2), and never more than 2.  The claim speaks
\* of every grid; it is stated here for the grids whose filled cells repeat
\* no value in a row, column or box, the only ones the carver ever passes.
C5_CountCappedAtTwo ==
    (pc = "counted" /\ NoDuplicates(puzzle, size)) =>
        LET N == Cardinality(Completions(puzzle))
        IN  /\ out = IF N < 2 THEN N ELSE 2
            /\ out <= 2

\* a grid without duplicates for which count_solutions returned more than 2
C5_Witness ==
    /\ pc = "counted" /\ NoDuplicates(puzzle, size)
    /\ Cardinality(Completions(puzzle)) >= 2
    /\ out > 2

\* C10: on a grid whose filled cells repeat no value in a row, column or
\* box, count_solutions returns 1 exactly when the grid has one completion,
\* 0 exactly when it has none, and 2 or more exactly when it has two or more.
C10_CountDecidesUniqueness ==
    (pc = "counted" /\ NoDuplicates(puzzle, size)) =>
        LET N == Cardinality(Completions(puzzle))
        IN  /\ out = 1 <=> N = 1
            /\ out = 0 <=> N = 0
            /\ out >= 2 <=> N >= 2

\* a grid without duplicates that nothing completes was counted
C10_Witness ==
    /\ pc = "counted" /\ NoDuplicates(puzzle, size)
    /\ ZeroCells(puzzle) >= 2
    /\ Completions(puzzle) = {}
    /\ out = 0

(***************************************************************************)
(* SpecValid: is_valid_solution called on grids of edge 1, 4 and 9: valid  *)
(* grids, the same with two neighbouring rows or columns exchanged, with   *)
(* up to two of the first cells overwritten, one cell short or too long.   *)
(***************************************************************************)
MaxEditCell == 4

ValidSizes == {1, 4, 9}

SwapRows(g, n, a, b) ==
    [i \in 1..Len(g) |->
        LET r == (i - 1) \div n
            c == (i - 1) % n
        IN  IF r = a THEN g[b * n + c + 1] ELSE IF r = b THEN g[a * n + c + 1] ELSE g[i]]

SwapCols(g, n, a, b) ==
    [i \in 1..Len(g) |->
        LET r == (i - 1) \div n
            c == (i - 1) % n
        IN  IF c = a THEN g[r * n + b + 1] ELSE IF c = b THEN g[r * n + a + 1] ELSE g[i]]

BaseGrids(n) ==
    LET given == {PatternGrid(n, Iota(n))} \cup (IF n = TestSize THEN {valid_4x4} ELSE {})
    IN  given
        \cup {SwapRows(g, n, r, r + 1) : g \in given, r \in 0..(n - 2)}
        \cup {SwapCols(g, n, c, c + 1) : g \in given, c \in 0..(n - 2)}

Overwritten(grids, n) ==
    {[g EXCEPT ![i] = v] :
        g \in grids, i \in 1..(IF MaxEditCell + 1 < n * n THEN MaxEditCell + 1 ELSE n * n),
        v \in (0 - 1)..(n + 1)}

ValidInputs(n) ==
    LET edited == Overwritten(Overwritten(BaseGrids(n), n), n)
    IN  edited
        \cup {SubSeq(g, 1, Len(g) - 1) : g \in BaseGrids(n)}
        \cup {Append(g, 1) : g \in BaseGrids(n)}

InitValid ==
    /\ pc = "input"
    /\ size \in ValidSizes /\ difficulty = 0 /\ seed = 0
    /\ puzzle \in ValidInputs(size)
    /\ rng = 0 /\ vec = None /\ si = 0
    /\ grid = None /\ stack = <<>> /\ mode = "none" /\ arg = 0 /\ ret = 0 /\ filled = FALSE
    /\ solution = None /\ indices = None /\ cur = 0 /\ removed = 0 /\ original = 0
    /\ out = None /\ memo = None

\* is_valid_solution(&grid, size)
CallIsValidSolution ==
    /\ pc = "input"
    /\ out' = is_valid_solution(puzzle, size)
    /\ pc' = "validated"
    /\ UNCHANGED <<argVars, rng, vec, si, searchVars, solution, carveVars, memo>>

NextValid == CallIsValidSolution

SpecValid == InitValid /\ [][NextValid]_vars

\* C9: is_valid_solution(grid, size) is true exactly when the grid has size^2
\* cells and every row, column and box is a permutation of 1..size; a zero, a
\* duplicate, a value out of range or a wrong length makes it false.
C9_ValidIffPermutations ==
    pc = "validated" =>
        /\ out = IsSolution(puzzle, size)
        /\ (\/ Len(puzzle) # size * size
            \/ \E i \in 1..Len(puzzle) : puzzle[i] < 1 \/ puzzle[i] > size
            \/ ~NoDuplicates(puzzle, size)) => out = FALSE

\* rows and columns are permutations and a box is not: the grid was refused
C9_Witness ==
    /\ pc = "validated" /\ out = FALSE /\ size = TestSize
    /\ Len(puzzle) = size * size
    /\ \A r \in 0..(size - 1) : {puzzle[r * size + c + 1] : c \in 0..(size - 1)} = 1..size
    /\ \A c \in 0..(size - 1) : {puzzle[r * size + c + 1] : r \in 0..(size - 1)} = 1..size

(***************************************************************************)
(* SpecUndo: the two searches with the buffer's content recorded at the    *)
(* entry of every call.  memo is the sequence of these records, one for    *)
(* each call that has been entered and has not yet been returned from:     *)
(* fill_grid as generate_solution calls it below the pattern threshold,    *)
(* and count_solutions on the grids of SpecCount.                          *)
(***************************************************************************)
SearchPcs == CountPcs \cup {"fill_grid"}
UndoSizes == {TestSize, CheckedSize}

InitUndo ==
    /\ \/ /\ pc = "input"
          /\ size = TestSize /\ seed = 0
          /\ puzzle \in CountInputs
       \/ /\ pc = "generate_solution"
          /\ size \in UndoSizes /\ seed \in GenSeeds
          /\ puzzle = None
    /\ difficulty = 0
    /\ rng = 0 /\ vec = None /\ si = 0
    /\ grid = None /\ stack = <<>> /\ mode = "none" /\ arg = 0 /\ ret = 0 /\ filled = FALSE
    /\ solution = None /\ indices = None /\ cur = 0 /\ removed = 0 /\ original = 0
    /\ out = None /\ memo = <<>>

\* the call in `arg` is entered and its record is not yet taken
Entering == pc \in SearchPcs /\ mode = "call" /\ Len(memo) = Len(stack)
\* the record on top of memo is the one of the call that is running its entry
\* or has just returned
Entered == pc \in SearchPcs /\ Len(memo) = Len(stack) + 1
\* every record belongs to a call that has a frame
Left == Len(memo) = Len(stack)

\* the first statement of fill_grid / count_solutions_recursive is reached
Enter ==
    /\ Entering
    /\ memo' = Append(memo, grid)
    /\ UNCHANGED <<pc, argVars, rng, vec, si, searchVars, solution, carveVars, out>>

\* the caller takes the returned value
Leave ==
    /\ Entered
    /\ mode = "ret"
    /\ memo' = SubSeq(memo, 1, Len(memo) - 1)
    /\ UNCHANGED <<pc, argVars, rng, vec, si, searchVars, solution, carveVars, out>>

FillCallEntered == Entered /\ FillCall
FillRetLeft == Left /\ FillRet
FillDoneLeft == Left /\ FillDone
CountCallEntered == Entered /\ CountCall
CountRetLeft == Left /\ CountRet
CountSolutionsReturnLeft == Left /\ CountSolutionsReturn

NextUndo ==
    \/ GenerateSolution \/ ShuffleStep
    \/ FillCallEntered \/ FillShuffled \/ FillLoop \/ FillRetLeft \/ FillDoneLeft
    \/ CallCountSolutions
    \/ CountCallEntered \/ CountLoop \/ CountRetLeft
    \/ CountSolutionsReturnLeft
    \/ Enter \/ Leave

SpecUndo == InitUndo /\ [][NextUndo]_vars

\* the call that has just returned and whose record is on top of memo
Returned == Entered /\ mode = "ret"

\* C11: when fill_grid returns false, and when count_solutions_recursive
\* returns any count (the return at the cutoff included), the buffer holds
\* what it held when that call was entered; the puzzle handed to
\* count_solutions is what it was at the entry of the outermost call and is
\* what the buffer holds when count_solutions returns; and a fill_grid that
\* returned false has left 0 in every cell from the caller's cell onwards.
C11_SearchUndone ==
    /\ (Returned /\ pc \in CountPcs) => grid = memo[Len(memo)]
    /\ (Returned /\ pc = "fill_grid" /\ ~filled) =>
            /\ grid = memo[Len(memo)]
            /\ stack # <<>> =>
                 \A p \in (Top.pos + 1)..(size * size - 1) : grid[p + 1] = 0
    /\ (pc = "count_solutions" /\ memo # <<>>) => memo[1] = puzzle
    /\ pc = "counted" => (grid = puzzle /\ memo = <<>>)

\* a nested count_solutions_recursive has returned at the cutoff, below
\* digits that its callers placed and into a buffer that differs from the
\* puzzle
C11_Witness ==
    /\ Returned /\ pc = "count_solutions"
    /\ Len(stack) >= 2
    /\ ret >= MaxCount
    /\ grid # puzzle

\* a nested fill_grid has returned false
FillFailed ==
    /\ Returned /\ pc = "fill_grid" /\ ~filled
    /\ stack # <<>>

====
